---- MODULE Spec2Model ----
(***************************************************************************)
(* A model of the price prediction model of the property finder            *)
(* (src/property_finder/src/ml_predictor.cpp): one MLPredictor object, the *)
(* model file it saves to and loads from, and the calls a single-threaded  *)
(* caller makes on it.                                                     *)
(*                                                                         *)
(* Numbers.  A C++ double is modelled as a fixed-point number: the integer *)
(* v stands for the real v / Scale.  Products and quotients are rounded    *)
(* down to a multiple of 1 / Scale.  Inputs are kept small enough that no  *)
(* intermediate result leaves the 32-bit range TLC computes in.            *)
(***************************************************************************)
EXTENDS Integers, Sequences, FiniteSets, TLC

Scale == 10 * 10

Mul(a, b) == (a * b) \div Scale

Div(a, b) == (a * Scale) \div b

Abs(a) == IF a < 0 THEN 0 - a ELSE a

Max(a, b) == IF a > b THEN a ELSE b

RECURSIVE SqrtSearch(_, _, _)
SqrtSearch(v, lo, hi) ==
    IF lo >= hi THEN lo
    ELSE LET mid == (lo + hi + 1) \div 2
         IN IF mid * mid <= v THEN SqrtSearch(v, mid, hi)
            ELSE SqrtSearch(v, lo, mid - 1)

\* std::sqrt on a fixed-point number: the largest r with (r/Scale)^2 <= a/Scale
Sqrt(a) == SqrtSearch(a * Scale, 0, 46340)

\* sum of f[1] .. f[k]
RECURSIVE SumTo(_, _)
SumTo(f, k) == IF k = 0 THEN 0 ELSE f[k] + SumTo(f, k - 1)

\* the sequence <<f[1], .., f[k]>>, every element computed once
RECURSIVE Tabulate(_, _)
Tabulate(k, f) == IF k = 0 THEN <<>> ELSE Append(Tabulate(k - 1, f), f[k])

\* std::vector<double>::resize(k, fill): keeps the elements it already holds
Resize(v, k, fill) == [i \in 1..k |-> IF i <= Len(v) THEN v[i] ELSE fill]

(***************************************************************************)
(* Listings (class Property), as far as the predictor reads them.          *)
(***************************************************************************)
Property(id, city, price, bedrooms, bathrooms, size, type, latitude, longitude, amenities) ==
    [id |-> id, city |-> city, price |-> price, bedrooms |-> bedrooms,
     bathrooms |-> bathrooms, size |-> size, type |-> type,
     latitude |-> latitude, longitude |-> longitude, amenities |-> amenities]

L1 == Property(1, "Pune", 12345 * Scale + 67, 2, 1, 4 * Scale, "Apartment",
               1 * Scale, 2 * Scale, <<"gym">>)

L2 == Property(2, "Delhi", 10000 * Scale, 1, 2, 2 * Scale, "Villa",
               2 * Scale, 1 * Scale, <<>>)

Listings == {L1, L2}

\* listings of cities no training set holds
L3 == Property(3, "Mumbai", 11000 * Scale, 2, 1, 3 * Scale, "Apartment",
               1 * Scale, 1 * Scale, <<>>)

L4 == Property(4, "Chennai", 11000 * Scale, 2, 1, 3 * Scale, "Apartment",
               1 * Scale, 1 * Scale, <<>>)

Unseen == {L3, L4}

\* the listing sequences handed to trainModel
TrainingSets == {<<>>, <<L1>>, <<L1, L2>>}

\* the listing sequences handed to predictPrices
QuerySets == {<<L2, L1>>, <<L3, L4>>, <<L4, L3>>}

\* the listing sequences handed to calculateAccuracy
TestSets == {<<>>, <<L2, L1>>}

\* how the history names a listing, and a sequence of listings
Ids(listings) == [k \in 1..Len(listings) |-> listings[k].id]

(***************************************************************************)
(* Model files.  A file is a sequence of lines; a line is modelled by what *)
(* std::getline and std::stod make of it: a numeral (with the number it    *)
(* denotes), any other text, or the empty line.                            *)
(***************************************************************************)
Num(v) == [kind |-> "num", val |-> v, str |-> ""]

Text(str) == [kind |-> "text", val |-> 0, str |-> str]

Blank == [kind |-> "blank", val |-> 0, str |-> ""]

File(lines) == [exists |-> TRUE, lines |-> lines]

NoFile == [exists |-> FALSE, lines |-> <<>>]

\* the path saveModel is asked to write, and one in a directory that is not there
ModelPath == "model.txt"

UnwritablePath == "/nodir/model.txt"

\* the files on disk when the program starts
InitialFiles ==
    [path \in {ModelPath, UnwritablePath, "header.txt", "badbias.txt",
               "badweight.txt", "short.txt", "full.txt"} |->
        CASE path = "header.txt" ->
                File(<<Text("ridge"), Num(150)>>)
          [] path = "badbias.txt" ->
                File(<<Text("ridge"), Text("abc"), Num(100)>>)
          [] path = "badweight.txt" ->
                File(<<Text("linear_regression"), Num(250), Num(100), Text("x1"), Num(300)>>)
          [] path = "short.txt" ->
                File(<<Text("linear_regression"), Num(250), Num(0 - 100), Blank, Num(700)>>)
          [] path = "full.txt" ->
                File(<<Text("linear_regression"), Num(1234567), Num(150), Num(0 - 25),
                       Num(1000001), Num(0), Num(310), Num(12), Num(0 - 7), Num(99),
                       Num(5)>>)
          [] OTHER -> NoFile]

Paths == DOMAIN InitialFiles

\* the paths loadModel is asked to read
LoadPaths == Paths \ {UnwritablePath}

\* the paths saveModel is asked to write
SavePaths == {ModelPath, UnwritablePath}

\* the text of a line as a std::string
LineString(line) ==
    IF line.kind = "num" THEN ToString(line.val) ELSE line.str

\* the line operator<< writes for a std::string
StringLine(str) == IF str = "" THEN Blank ELSE Text(str)

RECURSIVE Pow10(_)
Pow10(k) == IF k = 0 THEN 1 ELSE 10 * Pow10(k - 1)

RECURSIVE NumDigits(_)
NumDigits(v) == IF v < 10 THEN 1 ELSE 1 + NumDigits(v \div 10)

\* the precision of an ostream that nothing has configured
StreamPrecision == 6

\* the number a double reads as once operator<< has written it: rounded to
\* StreamPrecision significant decimal digits (a tie rounds away from zero)
FormatDouble(v) ==
    LET a == Abs(v)
        d == NumDigits(a)
    IN IF d <= StreamPrecision THEN v
       ELSE LET unit == Pow10(d - StreamPrecision)
                r == ((a + unit \div 2) \div unit) * unit
            IN IF v < 0 THEN 0 - r ELSE r

(***************************************************************************)
(* Bounds of the model.                                                    *)
(***************************************************************************)
\* the number of calls a run makes on the predictor
MaxCalls == 2

(***************************************************************************)
(* Program constants.                                                      *)
(***************************************************************************)
max_iterations == 1000

learning_rate == Scale \div 100

DefaultModelType == "linear_regression"

ModelTypes == {"linear_regression", "ridge"}

(***************************************************************************)
(* State.                                                                  *)
(***************************************************************************)
VARIABLES
    model_type_,        \* std::string
    is_trained_,        \* bool
    weights_,           \* std::vector<double>
    bias_,              \* double
    feature_means_,     \* std::vector<double>
    feature_stds_,      \* std::vector<double>
    city_encoding_,     \* std::map<std::string, int>
    type_encoding_,     \* std::map<std::string, int>
    files,              \* the model files on disk: path -> lines, or NoFile
    pc,                 \* "idle", or "gd" inside trainLinearRegression's loop
    iter,               \* the loop variable of trainLinearRegression
    training_data,      \* trainModel's argument while it runs
    X,                  \* trainModel's normalized feature matrix
    y,                  \* trainModel's target vector
    history,            \* the calls made so far: [op, arg, ret, threw], a
                        \* listing named by its id
    collection,         \* the std::vector<Property> the client hands to the
                        \* SearchEngine
    properties_,        \* PropertyManager: std::vector<Property>
    id_to_index_        \* PropertyManager: std::map<int, size_t>

model == <<model_type_, is_trained_, weights_, bias_, feature_means_,
           feature_stds_, city_encoding_, type_encoding_>>

locals == <<pc, iter, training_data, X, y>>

manager == <<properties_, id_to_index_>>

vars == <<model_type_, is_trained_, weights_, bias_, feature_means_,
          feature_stds_, city_encoding_, type_encoding_, files, pc, iter,
          training_data, X, y, history, collection,
          properties_, id_to_index_>>

\* an empty std::map<int, size_t>
EmptyIndex == [id \in {} |-> 0]

EmptyEncoding == [v \in {} |-> 0]

Call(op, arg, ret) == [op |-> op, arg |-> arg, ret |-> ret, threw |-> FALSE]

Threw(op, arg) == [op |-> op, arg |-> arg, ret |-> "invalid_argument", threw |-> TRUE]

Last == history[Len(history)]

(***************************************************************************)
(* Feature engineering.                                                    *)
(***************************************************************************)
\* int encodeCategorical(value, encoding): the code, and the map it leaves
encodeCategorical(value, encoding) ==
    IF value \in DOMAIN encoding
    THEN [code |-> encoding[value], encoding |-> encoding]
    ELSE LET new_code == Cardinality(DOMAIN encoding)
         IN [code |-> new_code,
             encoding |-> [v \in DOMAIN encoding \cup {value} |->
                              IF v = value THEN new_code ELSE encoding[v]]]

\* initializeEncodings' loop over data[k..]
RECURSIVE encodeAll(_, _, _, _)
encodeAll(data, k, cenc, tenc) ==
    IF k > Len(data) THEN [city |-> cenc, type |-> tenc]
    ELSE encodeAll(data, k + 1,
                   encodeCategorical(data[k].city, cenc).encoding,
                   encodeCategorical(data[k].type, tenc).encoding)

\* initializeEncodings without the two clear() calls
initializeEncodingsKeepingOld(data) == encodeAll(data, 1, city_encoding_, type_encoding_)

initializeEncodings(data) == encodeAll(data, 1, EmptyEncoding, EmptyEncoding)

\* extractFeatures(property): the feature vector, and the encodings it leaves
extractFeatures(property, cenc, tenc) ==
    LET c == encodeCategorical(property.city, cenc)
        t == encodeCategorical(property.type, tenc)
    IN [features |-> << c.code * Scale,
                        t.code * Scale,
                        property.bedrooms * Scale,
                        property.bathrooms * Scale,
                        property.size,
                        property.latitude,
                        property.longitude,
                        property.size \div property.bedrooms,
                        Len(property.amenities) * Scale >>,
        city |-> c.encoding,
        type |-> t.encoding]

\* calculateNormalizationParams(features), from the parameters held before
calculateNormalizationParams(features, means, stds) ==
    IF Len(features) = 0 THEN [means |-> means, stds |-> stds]
    ELSE LET num_features == Len(features[1])
             cnt == Len(features)
             m0 == Resize(means, num_features, 0)
             s0 == Resize(stds, num_features, 0)
             m == Tabulate(num_features,
                    [i \in 1..num_features |->
                        (m0[i] + SumTo([k \in 1..cnt |-> features[k][i]], cnt)) \div cnt])
             s == Tabulate(num_features,
                    [i \in 1..num_features |->
                        LET acc == s0[i] + SumTo([k \in 1..cnt |->
                                        Mul(features[k][i] - m[i], features[k][i] - m[i])], cnt)
                            sd == Sqrt(acc \div cnt)
                        IN IF sd = 0 THEN 1 * Scale ELSE sd])
         IN [means |-> m, stds |-> s]

\* normalizeFeatureVector without the division
normalizeFeatureVectorCentred(features, means, stds) ==
    Tabulate(Len(features),
        [i \in 1..Len(features) |->
            IF i <= Len(means) THEN features[i] - means[i]
            ELSE features[i]])

normalizeFeatureVector(features, means, stds) ==
    Tabulate(Len(features),
        [i \in 1..Len(features) |->
            IF i <= Len(means) THEN Div(features[i] - means[i], stds[i])
            ELSE features[i]])

\* double predict(features)
predict(features, weights, bias) ==
    IF Len(features) # Len(weights) THEN 0
    ELSE LET result == bias + SumTo([i \in 1..Len(features) |->
                                        Mul(weights[i], features[i])], Len(features))
         IN Max(0, result)

\* one pass of trainLinearRegression's loop body
gradientStep(XX, yy, weights, bias) ==
    LET num_samples == Len(XX)
        num_features == Len(XX[1])
        error == Tabulate(num_samples,
                    [i \in 1..num_samples |-> predict(XX[i], weights, bias) - yy[i]])
        weight_gradients == [j \in 1..num_features |->
                    SumTo([i \in 1..num_samples |-> Mul(error[i], XX[i][j])], num_samples)]
        bias_gradient == SumTo(error, num_samples)
    IN [weights |-> Tabulate(num_features,
                      [j \in 1..num_features |->
                          weights[j] - (Mul(learning_rate, weight_gradients[j]) \div num_samples)]),
        bias |-> bias - (Mul(learning_rate, bias_gradient) \div num_samples)]

(***************************************************************************)
(* Initial state: MLPredictor::MLPredictor().                              *)
(***************************************************************************)
Init ==
    /\ model_type_ = DefaultModelType
    /\ is_trained_ = FALSE
    /\ weights_ = <<>>
    /\ bias_ = 0
    /\ feature_means_ = <<>>
    /\ feature_stds_ = <<>>
    /\ city_encoding_ = EmptyEncoding
    /\ type_encoding_ = EmptyEncoding
    /\ files = InitialFiles
    /\ pc = "idle"
    /\ iter = 0
    /\ training_data = <<>>
    /\ X = <<>>
    /\ y = <<>>
    /\ history = <<>>
    /\ collection = <<>>
    /\ properties_ = <<>>
    /\ id_to_index_ = EmptyIndex

CanCall == pc = "idle" /\ Len(history) < MaxCalls

(***************************************************************************)
(* bool trainModel(training_data)                                          *)
(***************************************************************************)
\* trainModel with initializeEncodings moved in front of the test for no data
TrainRejectedAfterReset(data) ==
    /\ CanCall
    /\ Len(data) = 0
    /\ city_encoding_' = initializeEncodings(data).city
    /\ type_encoding_' = initializeEncodings(data).type
    /\ history' = Append(history, Call("trainModel", Ids(data), FALSE))
    /\ UNCHANGED <<model_type_, is_trained_, weights_, bias_, feature_means_,
                   feature_stds_, files, locals>>
    /\ UNCHANGED <<collection, manager>>

\* the early return: no training data
TrainRejected(data) ==
    /\ CanCall
    /\ Len(data) = 0
    /\ history' = Append(history, Call("trainModel", Ids(data), FALSE))
    /\ UNCHANGED <<model, files, locals>>
    /\ UNCHANGED <<collection, manager>>

\* encodings, features, normalization; then either into trainLinearRegression's
\* loop or, for any other model type, straight to the end
TrainStarted(data) ==
    /\ CanCall
    /\ Len(data) # 0
    /\ LET enc == initializeEncodings(data)
           raw == Tabulate(Len(data),
                    [k \in 1..Len(data) |->
                        extractFeatures(data[k], enc.city, enc.type).features])
           params == calculateNormalizationParams(raw, feature_means_, feature_stds_)
           normalized == Tabulate(Len(data),
                    [k \in 1..Len(data) |->
                        normalizeFeatureVector(raw[k], params.means, params.stds)])
           targets == Tabulate(Len(data), [k \in 1..Len(data) |-> data[k].price])
       IN /\ city_encoding_' = enc.city
          /\ type_encoding_' = enc.type
          /\ feature_means_' = params.means
          /\ feature_stds_' = params.stds
          /\ IF model_type_ = "linear_regression"
             THEN /\ weights_' = Resize(weights_, Len(normalized[1]), 0)
                  /\ bias_' = 0
                  /\ pc' = "gd"
                  /\ iter' = 0
                  /\ training_data' = data
                  /\ X' = normalized
                  /\ y' = targets
                  /\ UNCHANGED <<is_trained_, history>>
             ELSE /\ is_trained_' = TRUE
                  /\ history' = Append(history, Call("trainModel", Ids(data), TRUE))
                  /\ UNCHANGED <<weights_, bias_, locals>>
    /\ UNCHANGED <<model_type_, files>>
    /\ UNCHANGED <<collection, manager>>

TrainModel(data) == TrainRejected(data) \/ TrainStarted(data)

\* one iteration of trainLinearRegression's loop
GradientStep ==
    /\ pc = "gd"
    /\ iter < max_iterations
    /\ LET next == gradientStep(X, y, weights_, bias_)
       IN /\ weights_' = next.weights
          /\ bias_' = next.bias
    /\ iter' = iter + 1
    /\ UNCHANGED <<model_type_, is_trained_, feature_means_, feature_stds_,
                   city_encoding_, type_encoding_, files, pc, training_data,
                   X, y, history>>
    /\ UNCHANGED <<collection, manager>>

\* the loop is over: trainModel marks the model trained and returns true
TrainReturn ==
    /\ pc = "gd"
    /\ iter = max_iterations
    /\ is_trained_' = TRUE
    /\ pc' = "idle"
    /\ iter' = 0
    /\ training_data' = <<>>
    /\ X' = <<>>
    /\ y' = <<>>
    /\ history' = Append(history, Call("trainModel", Ids(training_data), TRUE))
    /\ UNCHANGED <<model_type_, weights_, bias_, feature_means_, feature_stds_,
                   city_encoding_, type_encoding_, files>>
    /\ UNCHANGED <<collection, manager>>

(***************************************************************************)
(* std::vector<double> extractFeatures(property), called by the client     *)
(***************************************************************************)
ExtractFeatures(property) ==
    /\ CanCall
    /\ LET r == extractFeatures(property, city_encoding_, type_encoding_)
       IN /\ city_encoding_' = r.city
          /\ type_encoding_' = r.type
          /\ history' = Append(history, Call("extractFeatures", property.id, r.features))
    /\ UNCHANGED <<model_type_, is_trained_, weights_, bias_, feature_means_,
                   feature_stds_, files, locals>>
    /\ UNCHANGED <<collection, manager>>

(***************************************************************************)
(* double predictPrice(property)                                           *)
(***************************************************************************)
\* predictPrice with the is_trained_ test moved behind the feature extraction
predictPriceExtractsFirst(property, trained, weights, bias, means, stds, cenc, tenc) ==
    LET r == extractFeatures(property, cenc, tenc)
        normalized_features == normalizeFeatureVector(r.features, means, stds)
    IN [price |-> IF trained THEN predict(normalized_features, weights, bias) ELSE 0,
        city |-> r.city, type |-> r.type]

\* the price, and the encodings the call leaves
predictPrice(property, trained, weights, bias, means, stds, cenc, tenc) ==
    IF ~trained
    THEN [price |-> 0, city |-> cenc, type |-> tenc]
    ELSE LET r == extractFeatures(property, cenc, tenc)
             normalized_features == normalizeFeatureVector(r.features, means, stds)
         IN [price |-> predict(normalized_features, weights, bias),
             city |-> r.city, type |-> r.type]

PredictPrice(property) ==
    /\ CanCall
    /\ LET r == predictPrice(property, is_trained_, weights_, bias_, feature_means_,
                             feature_stds_, city_encoding_, type_encoding_)
       IN /\ city_encoding_' = r.city
          /\ type_encoding_' = r.type
          /\ history' = Append(history, Call("predictPrice", property.id, r.price))
    /\ UNCHANGED <<model_type_, is_trained_, weights_, bias_, feature_means_,
                   feature_stds_, files, locals>>
    /\ UNCHANGED <<collection, manager>>

\* predictPrice on properties[k..], one after the other: the prices (appended
\* to acc) and the encodings left
RECURSIVE predictEach(_, _, _, _, _, _, _, _, _, _)
predictEach(properties, k, acc, trained, weights, bias, means, stds, cenc, tenc) ==
    IF k > Len(properties)
    THEN [prices |-> acc, city |-> cenc, type |-> tenc]
    ELSE LET r == predictPrice(properties[k], trained, weights, bias, means, stds,
                               cenc, tenc)
         IN predictEach(properties, k + 1, Append(acc, r.price), trained, weights,
                        bias, means, stds, r.city, r.type)

(***************************************************************************)
(* std::vector<double> predictPrices(properties)                           *)
(***************************************************************************)
PredictPrices(properties) ==
    /\ CanCall
    /\ LET r == predictEach(properties, 1, <<>>, is_trained_, weights_, bias_,
                            feature_means_, feature_stds_, city_encoding_,
                            type_encoding_)
       IN /\ city_encoding_' = r.city
          /\ type_encoding_' = r.type
          /\ history' = Append(history, Call("predictPrices", Ids(properties), r.prices))
    /\ UNCHANGED <<model_type_, is_trained_, weights_, bias_, feature_means_,
                   feature_stds_, files, locals>>
    /\ UNCHANGED <<collection, manager>>

(***************************************************************************)
(* double calculateAccuracy(test_data)                                     *)
(***************************************************************************)
CalculateAccuracy(test_data) ==
    /\ CanCall
    /\ IF ~is_trained_ \/ Len(test_data) = 0
       THEN /\ history' = Append(history, Call("calculateAccuracy", Ids(test_data), 0))
            /\ UNCHANGED <<city_encoding_, type_encoding_>>
       ELSE LET r == predictEach(test_data, 1, <<>>, is_trained_, weights_, bias_,
                                 feature_means_, feature_stds_, city_encoding_,
                                 type_encoding_)
                cnt == Len(test_data)
                total_error == SumTo([k \in 1..cnt |->
                                         Abs(r.prices[k] - test_data[k].price)], cnt)
                total_actual == SumTo([k \in 1..cnt |-> test_data[k].price], cnt)
                mape == Mul(Div(total_error, total_actual), 100 * Scale)
            IN /\ city_encoding_' = r.city
               /\ type_encoding_' = r.type
               /\ history' = Append(history,
                                Call("calculateAccuracy", Ids(test_data), 100 * Scale - mape))
    /\ UNCHANGED <<model_type_, is_trained_, weights_, bias_, feature_means_,
                   feature_stds_, files, locals>>
    /\ UNCHANGED <<collection, manager>>

(***************************************************************************)
(* void setModelType(type)                                                 *)
(***************************************************************************)
SetModelType(type) ==
    /\ CanCall
    /\ model_type_' = type
    /\ history' = Append(history, Call("setModelType", type, TRUE))
    /\ UNCHANGED <<is_trained_, weights_, bias_, feature_means_, feature_stds_,
                   city_encoding_, type_encoding_, files, locals>>
    /\ UNCHANGED <<collection, manager>>

(***************************************************************************)
(* bool saveModel(model_file)                                              *)
(***************************************************************************)
\* the lines saveModel writes
saveModel(model_type, bias, weights) ==
    <<StringLine(model_type), Num(FormatDouble(bias))>>
        \o [i \in 1..Len(weights) |-> Num(FormatDouble(weights[i]))]

SaveModel(model_file) ==
    /\ CanCall
    /\ IF ~is_trained_ \/ model_file = UnwritablePath
       THEN /\ history' = Append(history, Call("saveModel", model_file, FALSE))
            /\ UNCHANGED files
       ELSE /\ files' = [files EXCEPT
                           ![model_file] = File(saveModel(model_type_, bias_, weights_))]
            /\ history' = Append(history, Call("saveModel", model_file, TRUE))
    /\ UNCHANGED <<model, locals>>
    /\ UNCHANGED <<collection, manager>>

(***************************************************************************)
(* bool loadModel(model_file)                                              *)
(***************************************************************************)
\* the loop that reads the weights from lines[k..] into acc: stops at the end
\* of the stream or at an empty line; std::stod throws on a line that is no
\* numeral, with the weights read so far in place
RECURSIVE readWeights(_, _, _)
readWeights(lines, k, acc) ==
    IF k > Len(lines) \/ lines[k].kind = "blank"
    THEN [threw |-> FALSE, weights |-> acc]
    ELSE IF lines[k].kind # "num"
    THEN [threw |-> TRUE, weights |-> acc]
    ELSE readWeights(lines, k + 1, Append(acc, lines[k].val))

\* loadModel clearing is_trained_ when the file cannot be opened
loadModelUntrainsOnFailure(file, model_type, bias, weights, trained) ==
    IF ~file.exists
    THEN [ret |-> FALSE, threw |-> FALSE, model_type |-> model_type, bias |-> bias,
          weights |-> weights, is_trained |-> FALSE]
    ELSE LET lines == file.lines
             type1 == IF Len(lines) >= 1 THEN LineString(lines[1]) ELSE model_type
         IN IF Len(lines) >= 2 /\ lines[2].kind # "num"
            THEN [ret |-> FALSE, threw |-> TRUE, model_type |-> type1, bias |-> bias,
                  weights |-> weights, is_trained |-> trained]
            ELSE LET bias1 == IF Len(lines) >= 2 THEN lines[2].val ELSE bias
                     w == readWeights(lines, 3, <<>>)
                 IN IF w.threw
                    THEN [ret |-> FALSE, threw |-> TRUE, model_type |-> type1,
                          bias |-> bias1, weights |-> w.weights, is_trained |-> trained]
                    ELSE [ret |-> TRUE, threw |-> FALSE, model_type |-> type1,
                          bias |-> bias1, weights |-> w.weights,
                          is_trained |-> (Len(w.weights) # 0)]

\* loadModel without weights_.clear(): the weights read are appended
loadModelAppending(file, model_type, bias, weights, trained) ==
    IF ~file.exists
    THEN [ret |-> FALSE, threw |-> FALSE, model_type |-> model_type, bias |-> bias,
          weights |-> weights, is_trained |-> trained]
    ELSE LET lines == file.lines
             type1 == IF Len(lines) >= 1 THEN LineString(lines[1]) ELSE model_type
         IN IF Len(lines) >= 2 /\ lines[2].kind # "num"
            THEN [ret |-> FALSE, threw |-> TRUE, model_type |-> type1, bias |-> bias,
                  weights |-> weights, is_trained |-> trained]
            ELSE LET bias1 == IF Len(lines) >= 2 THEN lines[2].val ELSE bias
                     w == readWeights(lines, 3, weights)
                 IN IF w.threw
                    THEN [ret |-> FALSE, threw |-> TRUE, model_type |-> type1,
                          bias |-> bias1, weights |-> w.weights, is_trained |-> trained]
                    ELSE [ret |-> TRUE, threw |-> FALSE, model_type |-> type1,
                          bias |-> bias1, weights |-> w.weights,
                          is_trained |-> (Len(w.weights) # 0)]

\* what loadModel makes of a file: its result and the fields it leaves
loadModel(file, model_type, bias, weights, trained) ==
    IF ~file.exists
    THEN [ret |-> FALSE, threw |-> FALSE, model_type |-> model_type, bias |-> bias,
          weights |-> weights, is_trained |-> trained]
    ELSE LET lines == file.lines
             type1 == IF Len(lines) >= 1 THEN LineString(lines[1]) ELSE model_type
         IN IF Len(lines) >= 2 /\ lines[2].kind # "num"
            THEN [ret |-> FALSE, threw |-> TRUE, model_type |-> type1, bias |-> bias,
                  weights |-> weights, is_trained |-> trained]
            ELSE LET bias1 == IF Len(lines) >= 2 THEN lines[2].val ELSE bias
                     w == readWeights(lines, 3, <<>>)
                 IN IF w.threw
                    THEN [ret |-> FALSE, threw |-> TRUE, model_type |-> type1,
                          bias |-> bias1, weights |-> w.weights, is_trained |-> trained]
                    ELSE [ret |-> TRUE, threw |-> FALSE, model_type |-> type1,
                          bias |-> bias1, weights |-> w.weights,
                          is_trained |-> (Len(w.weights) # 0)]

LoadModel(model_file) ==
    /\ CanCall
    /\ LET r == loadModel(files[model_file], model_type_, bias_, weights_, is_trained_)
       IN /\ model_type_' = r.model_type
          /\ bias_' = r.bias
          /\ weights_' = r.weights
          /\ is_trained_' = r.is_trained
          /\ history' = Append(history,
                           IF r.threw THEN Threw("loadModel", model_file)
                           ELSE Call("loadModel", model_file, r.ret))
    /\ UNCHANGED <<feature_means_, feature_stds_, city_encoding_, type_encoding_,
                   files, locals>>
    /\ UNCHANGED <<collection, manager>>

Next ==
    \/ \E data \in TrainingSets : TrainModel(data)
    \/ GradientStep
    \/ TrainReturn
    \/ \E property \in Listings : ExtractFeatures(property)
    \/ \E property \in Listings : PredictPrice(property)
    \/ \E properties \in QuerySets : PredictPrices(properties)
    \/ \E test_data \in TestSets : CalculateAccuracy(test_data)
    \/ \E type \in ModelTypes : SetModelType(type)
    \/ \E model_file \in SavePaths : SaveModel(model_file)
    \/ \E model_file \in LoadPaths : LoadModel(model_file)

Spec == Init /\ [][Next]_vars

(***************************************************************************)
(* SearchEngine (search_engine.cpp).  It has no fields: its state is the   *)
(* client's collection, which sortProperties takes by non-const reference. *)
(***************************************************************************)
\* the listings the client holds; A2 is A1 under another id, on the far side
\* of the globe
A1 == Property(1, "Pune", 1000 * Scale, 2, 1, 50 * Scale, "Apartment",
               (11 * Scale) \div 2, 0, <<"Gym", "Pool">>)

A2 == Property(2, "Pune", 1000 * Scale, 2, 1, 50 * Scale, "Apartment",
               0 - (11 * Scale) \div 2, 180 * Scale, <<"gym">>)

A3 == Property(3, "Delhi", 900 * Scale, 3, 2, 80 * Scale, "Villa",
               0, 90 * Scale, <<>>)

A4 == Property(4, "Delhi", 1100 * Scale + 1, 1, 1, 40 * Scale, "Apartment",
               45 * Scale, 45 * Scale, <<"Parking">>)

A5 == Property(5, "Pune", 1100 * Scale, 3, 2, 80 * Scale, "Villa",
               (11 * Scale) \div 2, 0, <<"Pool">>)

\* A4 to the cent below in price: only a client's target, in no collection
A6 == Property(6, "Delhi", 1100 * Scale, 1, 1, 40 * Scale, "Apartment",
               45 * Scale, 45 * Scale, <<"Parking">>)

\* the collections the client may hold
Collections == {<<>>, <<A2>>, <<A1, A2, A3>>, <<A4, A3, A5, A1>>}

Min(a, b) == IF a < b THEN a ELSE b

\* a double that may be NaN
Real(v) == [nan |-> FALSE, val |-> v]

NaN == [nan |-> TRUE, val |-> 0]

\* IEEE-754 arithmetic rounds to nearest, the same way for either sign
Nearest(a, b) ==
    IF a < 0 THEN 0 - ((b \div 2 - a) \div b) ELSE (a + b \div 2) \div b

FMul(a, b) == Nearest(a * b, Scale)

FDiv(a, b) == Nearest(a * Scale, b)

\* the precision std::sin and std::cos are computed at before they round
Fine == Scale * Scale

\* the power series acc + term - term x^2/((k+1)(k+2)) + ... to its last
\* non-zero term (x, term and acc count 1/Fine)
RECURSIVE Series(_, _, _, _)
Series(x, term, k, acc) ==
    IF term = 0 THEN acc
    ELSE Series(x,
                0 - Nearest(Nearest(term * x, Fine * (k + 1)) * x, Fine * (k + 2)),
                k + 2, acc + term)

sinFine(x) == Series(x, x, 1, 0)

cosFine(x) == Series(x, Fine, 0, 0)

\* std::sin, std::cos: the nearest fixed-point number to the true value
sin(x) == Nearest(sinFine(x * Scale), Scale)

cos(x) == Nearest(cosFine(x * Scale), Scale)

M_PI == 314

\* std::atan2(yy, xx) for yy, xx >= 0 (calculateDistance passes two square
\* roots): the largest angle t in [0, pi/2] with tan(t) <= yy / xx
RECURSIVE Atan2Search(_, _, _, _)
Atan2Search(yy, xx, lo, hi) ==
    IF lo >= hi THEN lo
    ELSE LET mid == (lo + hi + 1) \div 2
         IN IF yy * cosFine(mid * Scale) >= xx * sinFine(mid * Scale)
            THEN Atan2Search(yy, xx, mid, hi)
            ELSE Atan2Search(yy, xx, lo, mid - 1)

atan2(yy, xx) == Atan2Search(yy, xx, 0, M_PI \div 2)

\* double calculateDistance(lat1, lon1, lat2, lon2): std::sqrt(1 - a) is NaN
\* when rounding has left a above 1, and NaN goes through atan2 and R * c
calculateDistance(lat1, lon1, lat2, lon2) ==
    LET R == 6371 * Scale
        lat1_rad == FDiv(FMul(lat1, M_PI), 180 * Scale)
        lon1_rad == FDiv(FMul(lon1, M_PI), 180 * Scale)
        lat2_rad == FDiv(FMul(lat2, M_PI), 180 * Scale)
        lon2_rad == FDiv(FMul(lon2, M_PI), 180 * Scale)
        dlat == lat2_rad - lat1_rad
        dlon == lon2_rad - lon1_rad
        sin_dlat == sin(FDiv(dlat, 2 * Scale))
        sin_dlon == sin(FDiv(dlon, 2 * Scale))
        a == FMul(sin_dlat, sin_dlat)
             + FMul(FMul(FMul(cos(lat1_rad), cos(lat2_rad)), sin_dlon), sin_dlon)
    IN IF a > Scale THEN NaN
       ELSE Real(FMul(R, 2 * atan2(Sqrt(a), Sqrt(Scale - a))))

\* calculateSimilarity with 0.8 for the city
calculateSimilarityCityHeavy(p1, p2) ==
    LET city_term == IF p1.city = p2.city THEN (8 * Scale) \div 10 ELSE 0
        type_term == IF p1.type = p2.type THEN (2 * Scale) \div 10 ELSE 0
        bedroom_diff == Abs(p1.bedrooms - p2.bedrooms)
        bedroom_term == IF bedroom_diff = 0 THEN (2 * Scale) \div 10
                        ELSE IF bedroom_diff = 1 THEN Scale \div 10 ELSE 0
        price_ratio == FDiv(Min(p1.price, p2.price), Max(p1.price, p2.price))
        size_ratio == FDiv(Min(p1.size, p2.size), Max(p1.size, p2.size))
    IN city_term + type_term + bedroom_term
       + FMul((2 * Scale) \div 10, price_ratio) + FMul(Scale \div 10, size_ratio)

calculateSimilarityOfFirst(p1, p2) ==
    LET city_term == IF p1.city = p2.city THEN (3 * Scale) \div 10 ELSE 0
        type_term == IF p1.type = p2.type THEN (2 * Scale) \div 10 ELSE 0
        bedroom_diff == Abs(p1.bedrooms - p2.bedrooms)
        bedroom_term == IF bedroom_diff = 0 THEN (2 * Scale) \div 10
                        ELSE IF bedroom_diff = 1 THEN Scale \div 10 ELSE 0
        price_ratio == FDiv(p1.price, Max(p1.price, p2.price))
        size_ratio == FDiv(p1.size, Max(p1.size, p2.size))
    IN city_term + type_term + bedroom_term
       + FMul((2 * Scale) \div 10, price_ratio) + FMul(Scale \div 10, size_ratio)

\* double calculateSimilarity(p1, p2)
calculateSimilarity(p1, p2) ==
    LET city_term == IF p1.city = p2.city THEN (3 * Scale) \div 10 ELSE 0
        type_term == IF p1.type = p2.type THEN (2 * Scale) \div 10 ELSE 0
        bedroom_diff == Abs(p1.bedrooms - p2.bedrooms)
        bedroom_term == IF bedroom_diff = 0 THEN (2 * Scale) \div 10
                        ELSE IF bedroom_diff = 1 THEN Scale \div 10 ELSE 0
        price_ratio == FDiv(Min(p1.price, p2.price), Max(p1.price, p2.price))
        size_ratio == FDiv(Min(p1.size, p2.size), Max(p1.size, p2.size))
    IN city_term + type_term + bedroom_term
       + FMul((2 * Scale) \div 10, price_ratio) + FMul(Scale \div 10, size_ratio)

(***************************************************************************)
(* bool Property::matchesFilter(filters) and SearchEngine::search.  A      *)
(* filter value is a std::string, modelled like a line of a model file: by *)
(* what std::stod and std::stoi make of it.                                *)
(***************************************************************************)
\* the keys a std::map<std::string, std::string> may hold, in the order its
\* iteration visits them; "garage" is a key matchesFilter does not know
KeyOrder ==
    <<"bathrooms", "bedrooms", "city", "garage", "max_price", "max_size",
      "min_price", "min_size", "type">>

NoFilters == [key \in {} |-> Blank]

\* the criteria maps the client may pass
FilterMaps ==
    {NoFilters,
     "city" :> Text("Pune"),
     "type" :> Text("Villa"),
     "bedrooms" :> Num(2 * Scale),
     "bedrooms" :> Num(2 * Scale + 90),
     "bathrooms" :> Num(2 * Scale),
     "min_price" :> Num(1000 * Scale),
     "max_price" :> Num(1100 * Scale),
     "min_size" :> Num(50 * Scale),
     "max_size" :> Num(50 * Scale),
     "garage" :> Text("yes"),
     ("garage" :> Text("yes")) @@ ("bedrooms" :> Num(3 * Scale)),
     ("city" :> Text("Pune")) @@ ("min_price" :> Num(900 * Scale))
         @@ ("max_price" :> Num(1000 * Scale)),
     ("type" :> Text("Apartment")) @@ ("max_size" :> Num(40 * Scale)),
     "min_price" :> Text("abc"),
     "bedrooms" :> Blank,
     ("city" :> Text("Nowhere")) @@ ("min_price" :> Text("abc")),
     ("bathrooms" :> Num(2 * Scale)) @@ ("max_size" :> Text("big")),
     ("min_price" :> Text("abc")) @@ ("type" :> Text("Villa"))}

\* what matchesFilter and search give back: a value, or the exception of
\* std::stod or std::stoi
Answer(val) == [threw |-> FALSE, val |-> val]

Thrown == [threw |-> TRUE, val |-> "invalid_argument"]

\* std::stod: the number the string denotes
stod(value) == value.val

\* std::stoi: the integer the string starts with
stoi(value) ==
    IF value.val < 0 THEN 0 - ((0 - value.val) \div Scale)
    ELSE value.val \div Scale

\* the loop of matchesFilter from the k-th key on
RECURSIVE matchesFilterFrom(_, _, _)
matchesFilterFrom(property, filters, k) ==
    IF k > Len(KeyOrder) THEN Answer(TRUE)
    ELSE LET key == KeyOrder[k]
             value == filters[key]
             rest == matchesFilterFrom(property, filters, k + 1)
             SameText(mine) ==
                 IF mine # LineString(value) THEN Answer(FALSE) ELSE rest
             Parsed(fails) ==
                 IF value.kind # "num" THEN Thrown
                 ELSE IF fails THEN Answer(FALSE) ELSE rest
         IN IF key \notin DOMAIN filters THEN rest
            ELSE CASE key = "city" -> SameText(property.city)
                   [] key = "min_price" -> Parsed(property.price < stod(value))
                   [] key = "max_price" -> Parsed(property.price > stod(value))
                   [] key = "bedrooms" -> Parsed(property.bedrooms # stoi(value))
                   [] key = "bathrooms" -> Parsed(property.bathrooms # stoi(value))
                   [] key = "type" -> SameText(property.type)
                   [] key = "min_size" -> Parsed(property.size < stod(value))
                   [] key = "max_size" -> Parsed(property.size > stod(value))
                   [] OTHER -> rest

\* matchesFilter starting at the second key
matchesFilterSkippingFirst(property, filters) == matchesFilterFrom(property, filters, 2)

matchesFilter(property, filters) == matchesFilterFrom(property, filters, 1)

\* the loop of search from the k-th listing on
RECURSIVE searchFrom(_, _, _, _)
searchFrom(properties, filters, k, results) ==
    IF k > Len(properties) THEN Answer(results)
    ELSE LET m == matchesFilter(properties[k], filters)
         IN IF m.threw THEN Thrown
            ELSE searchFrom(properties, filters, k + 1,
                            IF m.val THEN Append(results, properties[k])
                            ELSE results)

search(properties, filters) == searchFrom(properties, filters, 1, <<>>)

(***************************************************************************)
(* searchByKeywords, matchesKeywords, tokenizeKeywords.  A keyword string  *)
(* is the sequence of its characters.                                      *)
(***************************************************************************)
\* the characters of the strings the listings hold
Chars(str) ==
    CASE str = "Pune" -> <<"P", "u", "n", "e">>
      [] str = "Delhi" -> <<"D", "e", "l", "h", "i">>
      [] str = "Apartment" -> <<"A", "p", "a", "r", "t", "m", "e", "n", "t">>
      [] str = "Villa" -> <<"V", "i", "l", "l", "a">>
      [] str = "Gym" -> <<"G", "y", "m">>
      [] str = "gym" -> <<"g", "y", "m">>
      [] str = "Pool" -> <<"P", "o", "o", "l">>
      [] str = "Parking" -> <<"P", "a", "r", "k", "i", "n", "g">>

\* the keyword strings the client may pass
KeywordStrings ==
    {<<>>, <<" ", " ">>, <<"p", "u", "n", "e">>, <<"x", "y", "z">>,
     <<" ", "V", "I", "L", "L", "A", " ", " ", "g", "y", "m">>,
     <<"p", "u", "n", "e", "x", " ", "a", "r", "k">>}

UpperCase ==
    <<"A", "B", "C", "D", "E", "F", "G", "H", "I", "J", "K", "L", "M",
      "N", "O", "P", "Q", "R", "S", "T", "U", "V", "W", "X", "Y", "Z">>

LowerCase ==
    <<"a", "b", "c", "d", "e", "f", "g", "h", "i", "j", "k", "l", "m",
      "n", "o", "p", "q", "r", "s", "t", "u", "v", "w", "x", "y", "z">>

\* ::tolower on one character, and std::transform with it on a string
tolower(c) ==
    IF \E i \in DOMAIN UpperCase : UpperCase[i] = c
    THEN LowerCase[CHOOSE i \in DOMAIN UpperCase : UpperCase[i] = c]
    ELSE c

ToLower(chars) == [i \in 1..Len(chars) |-> tolower(chars[i])]

\* text.find(token) != std::string::npos
Finds(text, token) ==
    \E i \in 0..(Len(text) - Len(token)) :
        \A j \in 1..Len(token) : text[i + j] = token[j]

\* the loop of tokenizeKeywords: operator>> splits at white space
RECURSIVE tokenizeFrom(_, _, _, _)
tokenizeFrom(keywords, k, token, tokens) ==
    LET closed == IF token = <<>> THEN tokens ELSE Append(tokens, token)
    IN IF k > Len(keywords) THEN closed
       ELSE IF keywords[k] = " " THEN tokenizeFrom(keywords, k + 1, <<>>, closed)
       ELSE tokenizeFrom(keywords, k + 1, Append(token, keywords[k]), tokens)

tokenizeKeywords(keywords) == tokenizeFrom(keywords, 1, <<>>, <<>>)

matchesKeywordsEveryToken(property, keywords) ==
    LET tokens == tokenizeKeywords(keywords)
    IN \A t \in 1..Len(tokens) :
           LET lower_token == ToLower(tokens[t])
           IN \/ Finds(ToLower(Chars(property.city)), lower_token)
              \/ Finds(ToLower(Chars(property.type)), lower_token)
              \/ \E n \in 1..Len(property.amenities) :
                     Finds(ToLower(Chars(property.amenities[n])), lower_token)

matchesKeywords(property, keywords) ==
    LET tokens == tokenizeKeywords(keywords)
    IN \E t \in 1..Len(tokens) :
           LET lower_token == ToLower(tokens[t])
           IN \/ Finds(ToLower(Chars(property.city)), lower_token)
              \/ Finds(ToLower(Chars(property.type)), lower_token)
              \/ \E n \in 1..Len(property.amenities) :
                     Finds(ToLower(Chars(property.amenities[n])), lower_token)

searchByKeywords(properties, keywords) ==
    LET Matches(property) == matchesKeywords(property, keywords)
    IN SelectSeq(properties, Matches)

(***************************************************************************)
(* searchNearby                                                            *)
(***************************************************************************)
\* the reference points (latitude, longitude) and radii the client may pass:
\* where A1 and A5 are, and where A3 is
RefPoints == {<<(11 * Scale) \div 2, 0>>, <<0, 90 * Scale>>}

Radii == {0 - Scale, 0, 5000 * Scale, 25000 * Scale}

\* distance < radius_km
WithinExclusive(distance, radius_km) == ~distance.nan /\ distance.val < radius_km

\* distance <= radius_km, which is false of NaN
Within(distance, radius_km) == ~distance.nan /\ distance.val <= radius_km

searchNearbyLatestFirst(properties, latitude, longitude, radius_km) ==
    LET Near(property) ==
            Within(calculateDistance(latitude, longitude,
                                     property.latitude, property.longitude),
                   radius_km)
        results == SelectSeq(properties, Near)
    IN [i \in 1..Len(results) |-> results[Len(results) + 1 - i]]

searchNearby(properties, latitude, longitude, radius_km) ==
    LET Near(property) ==
            Within(calculateDistance(latitude, longitude,
                                     property.latitude, property.longitude),
                   radius_km)
    IN SelectSeq(properties, Near)

(***************************************************************************)
(* std::sort with a comparison of the form key(a) < key(b): the range ends *)
(* in an order in which no element is followed by one of a smaller key;    *)
(* the order of elements of equal key is not specified, so every such      *)
(* order is a possible outcome.  keys[i] is the key of seq[i].             *)
(***************************************************************************)
Arrangements(seq) ==
    {[i \in 1..Len(seq) |-> seq[p[i]]] : p \in Permutations(1..Len(seq))}

Sorts(seq, keys) ==
    {[i \in 1..Len(seq) |-> seq[p[i]]] :
     p \in {q \in Permutations(1..Len(seq)) :
            \A i \in 1..(Len(seq) - 1) : keys[q[i + 1]] >= keys[q[i]]}}

(***************************************************************************)
(* recommendSimilar, recommendByBudget                                     *)
(***************************************************************************)
\* the targets and max_results the client may pass
Targets == {A1, A3, A4, A6}

ResultLimits == {0 - 1, 0, 1, 2, 5}

\* scored_properties without the test of the id
scoredPropertiesOfAll(properties, target_property) ==
    Tabulate(Len(properties),
             [i \in 1..Len(properties) |->
                 [first |-> calculateSimilarity(target_property, properties[i]),
                  second |-> properties[i]]])

\* scored_properties before the sort
scoredProperties(properties, target_property) ==
    LET Other(property) == property.id # target_property.id
        others == SelectSeq(properties, Other)
    IN Tabulate(Len(others),
                [i \in 1..Len(others) |->
                    [first |-> calculateSimilarity(target_property, others[i]),
                     second |-> others[i]]])

\* recommendSimilar copying one element more than count
recommendSimilarOneMore(properties, target_property, max_results) ==
    LET scored == scoredProperties(properties, target_property)
        \* a.first > b.first
        keys == Tabulate(Len(scored), [i \in 1..Len(scored) |-> 0 - scored[i].first])
        count == Min(max_results + 1, Len(scored))
    IN {[i \in 1..count |-> sorted[i].second] : sorted \in Sorts(scored, keys)}

\* the results recommendSimilar may return
recommendSimilar(properties, target_property, max_results) ==
    LET scored == scoredProperties(properties, target_property)
        \* a.first > b.first
        keys == Tabulate(Len(scored), [i \in 1..Len(scored) |-> 0 - scored[i].first])
        count == Min(max_results, Len(scored))
    IN {[i \in 1..count |-> sorted[i].second] : sorted \in Sorts(scored, keys)}

\* the budgets and tolerances the client may pass
Budgets == {1000 * Scale, 1100 * Scale, 0 - 1000 * Scale}

Tolerances == {0, Scale \div 10}

\* recommendByBudget with max_price itself out of range
recommendByBudgetBelowMax(properties, budget, tolerance) ==
    LET min_price == FMul(budget, Scale - tolerance)
        max_price == FMul(budget, Scale + tolerance)
        Affordable(property) ==
            property.price >= min_price /\ property.price < max_price
        results == SelectSeq(properties, Affordable)
        \* std::abs(a.getPrice() - budget) < std::abs(b.getPrice() - budget)
        keys == Tabulate(Len(results),
                         [i \in 1..Len(results) |-> Abs(results[i].price - budget)])
    IN Sorts(results, keys)

\* the results recommendByBudget may return
recommendByBudget(properties, budget, tolerance) ==
    LET min_price == FMul(budget, Scale - tolerance)
        max_price == FMul(budget, Scale + tolerance)
        Affordable(property) ==
            property.price >= min_price /\ property.price <= max_price
        results == SelectSeq(properties, Affordable)
        \* std::abs(a.getPrice() - budget) < std::abs(b.getPrice() - budget)
        keys == Tabulate(Len(results),
                         [i \in 1..Len(results) |-> Abs(results[i].price - budget)])
    IN Sorts(results, keys)

(***************************************************************************)
(* sortProperties                                                          *)
(***************************************************************************)
SortBy ==
    {"PRICE_ASC", "PRICE_DESC", "SIZE_ASC", "SIZE_DESC", "BEDROOMS_ASC",
     "BEDROOMS_DESC", "RELEVANCE", "DISTANCE"}

\* the orders sortProperties may leave the collection in.  A NaN distance
\* compares less than nothing, which is no strict weak ordering: std::sort
\* then promises no order at all.
sortProperties(properties, sort_by, ref_latitude, ref_longitude) ==
    LET size == Len(properties)
        distances ==
            Tabulate(size,
                     [i \in 1..size |->
                         calculateDistance(ref_latitude, ref_longitude,
                                           properties[i].latitude,
                                           properties[i].longitude)])
    IN CASE sort_by = "PRICE_ASC" ->
                Sorts(properties, [i \in 1..size |-> properties[i].price])
         [] sort_by = "PRICE_DESC" ->
                Sorts(properties, [i \in 1..size |-> 0 - properties[i].price])
         [] sort_by = "SIZE_ASC" ->
                Sorts(properties, [i \in 1..size |-> properties[i].size])
         [] sort_by = "SIZE_DESC" ->
                Sorts(properties, [i \in 1..size |-> 0 - properties[i].size])
         [] sort_by = "BEDROOMS_ASC" ->
                Sorts(properties, [i \in 1..size |-> properties[i].bedrooms])
         [] sort_by = "BEDROOMS_DESC" ->
                Sorts(properties, [i \in 1..size |-> 0 - properties[i].bedrooms])
         [] sort_by = "DISTANCE" ->
                IF \E i \in 1..size : distances[i].nan
                THEN Arrangements(properties)
                ELSE Sorts(properties, [i \in 1..size |-> distances[i].val])
         [] OTHER -> {properties}

(***************************************************************************)
(* calculatePriceStatistics, getPopularAmenities                           *)
(***************************************************************************)
NoStats == [key \in {} |-> 0]

calculatePriceStatisticsUpperMedian(properties) ==
    IF Len(properties) = 0 THEN NoStats
    ELSE LET size == Len(properties)
             unsorted == [i \in 1..size |-> properties[i].price]
             prices == CHOOSE sorted \in Sorts(unsorted, unsorted) : TRUE
             mean == FDiv(SumTo(prices, size), size * Scale)
             median == prices[size \div 2 + 1]
             squares == [i \in 1..size |-> FMul(prices[i] - mean, prices[i] - mean)]
             variance == SumTo(squares, size)
         IN ("count" :> size * Scale) @@ ("mean" :> mean)
            @@ ("min" :> prices[1]) @@ ("max" :> prices[size])
            @@ ("median" :> median)
            @@ ("std_dev" :> Sqrt(FDiv(variance, size * Scale)))

calculatePriceStatistics(properties) ==
    IF Len(properties) = 0 THEN NoStats
    ELSE LET size == Len(properties)
             unsorted == [i \in 1..size |-> properties[i].price]
             prices == CHOOSE sorted \in Sorts(unsorted, unsorted) : TRUE
             mean == FDiv(SumTo(prices, size), size * Scale)
             median ==
                 IF size % 2 = 0
                 THEN FDiv(prices[size \div 2] + prices[size \div 2 + 1], 2 * Scale)
                 ELSE prices[size \div 2 + 1]
             squares == [i \in 1..size |-> FMul(prices[i] - mean, prices[i] - mean)]
             variance == SumTo(squares, size)
         IN ("count" :> size * Scale) @@ ("mean" :> mean)
            @@ ("min" :> prices[1]) @@ ("max" :> prices[size])
            @@ ("median" :> median)
            @@ ("std_dev" :> Sqrt(FDiv(variance, size * Scale)))

getPopularAmenities(properties) ==
    LET places == UNION {{<<i, j>> : j \in 1..Len(properties[i].amenities)} :
                         i \in 1..Len(properties)}
        Name(place) == properties[place[1]].amenities[place[2]]
    IN [amenity \in {Name(place) : place \in places} |->
           Cardinality({place \in places : Name(place) = amenity})]

(***************************************************************************)
(* The client of a SearchEngine: it holds a collection and makes calls.    *)
(***************************************************************************)
\* the number of calls a run makes on the search engine
MaxSearches == 1

SearchInit ==
    /\ model_type_ = DefaultModelType
    /\ is_trained_ = FALSE
    /\ weights_ = <<>>
    /\ bias_ = 0
    /\ feature_means_ = <<>>
    /\ feature_stds_ = <<>>
    /\ city_encoding_ = EmptyEncoding
    /\ type_encoding_ = EmptyEncoding
    /\ files = InitialFiles
    /\ pc = "idle"
    /\ iter = 0
    /\ training_data = <<>>
    /\ X = <<>>
    /\ y = <<>>
    /\ history = <<>>
    /\ collection \in Collections
    /\ properties_ = <<>>
    /\ id_to_index_ = EmptyIndex

CanSearch == Len(history) < MaxSearches

Search(filters) ==
    /\ CanSearch
    /\ LET r == search(collection, filters)
       IN history' = Append(history, IF r.threw THEN Threw("search", filters)
                                     ELSE Call("search", filters, r.val))
    /\ UNCHANGED <<model, files, locals, collection, manager>>

SearchByKeywords(keywords) ==
    /\ CanSearch
    /\ history' = Append(history, Call("searchByKeywords", keywords,
                                       searchByKeywords(collection, keywords)))
    /\ UNCHANGED <<model, files, locals, collection, manager>>

SearchNearby(latitude, longitude, radius_km) ==
    /\ CanSearch
    /\ history' = Append(history,
           Call("searchNearby",
                [latitude |-> latitude, longitude |-> longitude,
                 radius_km |-> radius_km],
                searchNearby(collection, latitude, longitude, radius_km)))
    /\ UNCHANGED <<model, files, locals, collection, manager>>

RecommendSimilar(target_property, max_results) ==
    /\ CanSearch
    /\ \E results \in recommendSimilar(collection, target_property, max_results) :
           history' = Append(history,
               Call("recommendSimilar",
                    [target_property |-> target_property,
                     max_results |-> max_results],
                    results))
    /\ UNCHANGED <<model, files, locals, collection, manager>>

RecommendByBudget(budget, tolerance) ==
    /\ CanSearch
    /\ \E results \in recommendByBudget(collection, budget, tolerance) :
           history' = Append(history,
               Call("recommendByBudget",
                    [budget |-> budget, tolerance |-> tolerance], results))
    /\ UNCHANGED <<model, files, locals, collection, manager>>

SortProperties(sort_by, ref_latitude, ref_longitude) ==
    /\ CanSearch
    /\ collection' \in sortProperties(collection, sort_by, ref_latitude, ref_longitude)
    /\ history' = Append(history,
           Call("sortProperties",
                [sort_by |-> sort_by, ref_latitude |-> ref_latitude,
                 ref_longitude |-> ref_longitude],
                "void"))
    /\ UNCHANGED <<model, files, locals, manager>>

CalculatePriceStatistics ==
    /\ CanSearch
    /\ history' = Append(history, Call("calculatePriceStatistics", <<>>,
                                       calculatePriceStatistics(collection)))
    /\ UNCHANGED <<model, files, locals, collection, manager>>

GetPopularAmenities ==
    /\ CanSearch
    /\ history' = Append(history, Call("getPopularAmenities", <<>>,
                                       getPopularAmenities(collection)))
    /\ UNCHANGED <<model, files, locals, collection, manager>>

SearchNext ==
    \/ \E filters \in FilterMaps : Search(filters)
    \/ \E keywords \in KeywordStrings : SearchByKeywords(keywords)
    \/ \E point \in RefPoints, radius_km \in Radii :
           SearchNearby(point[1], point[2], radius_km)
    \/ \E target_property \in Targets, max_results \in ResultLimits :
           RecommendSimilar(target_property, max_results)
    \/ \E budget \in Budgets, tolerance \in Tolerances :
           RecommendByBudget(budget, tolerance)
    \/ \E sort_by \in SortBy \ {"DISTANCE"} : SortProperties(sort_by, 0, 0)
    \/ \E point \in RefPoints : SortProperties("DISTANCE", point[1], point[2])
    \/ CalculatePriceStatistics
    \/ GetPopularAmenities

SearchSpec == SearchInit /\ [][SearchNext]_vars

(***************************************************************************)
(* PropertyManager (property_manager.cpp): the listings in a vector, and   *)
(* an index from id to position in it.                                     *)
(***************************************************************************)
\* A3 under the id of A1
D1 == [A3 EXCEPT !.id = A1.id]

\* the listings the client may add, and the ids it may ask for
Stock == {A1, A3, D1}

StockIds == {listing.id : listing \in Stock}

\* the number of calls a run makes on the manager
MaxOperations == 4

\* void updateIndexMap(): the map it leaves, positions counted from 0; of two
\* listings under one id the later one overwrites the earlier
updateIndexMap(properties) ==
    [id \in {properties[i].id : i \in 1..Len(properties)} |->
        (CHOOSE i \in 1..Len(properties) :
             /\ properties[i].id = id
             /\ \A j \in (i + 1)..Len(properties) : properties[j].id # id) - 1]

\* a Property *: null, or the position in properties_ it points at
nullptr == [null |-> TRUE, index |-> 0]

PointerTo(index) == [null |-> FALSE, index |-> index]

\* findProperty without the test of the position against properties_.size()
findPropertyUnchecked(id, properties, id_to_index) ==
    IF id \in DOMAIN id_to_index
    THEN PointerTo(id_to_index[id])
    ELSE nullptr

\* Property *findProperty(id)
findProperty(id, properties, id_to_index) ==
    IF id \in DOMAIN id_to_index /\ id_to_index[id] < Len(properties)
    THEN PointerTo(id_to_index[id])
    ELSE nullptr

\* what std::remove_if and erase leave of properties_
removeProperty(id, properties) ==
    LET Stays(p) == p.id # id
    IN SelectSeq(properties, Stays)

\* the place of a character in the order of char
Ordinal(c) ==
    IF \E i \in DOMAIN UpperCase : UpperCase[i] = c
    THEN CHOOSE i \in DOMAIN UpperCase : UpperCase[i] = c
    ELSE Len(UpperCase) + (CHOOSE i \in DOMAIN LowerCase : LowerCase[i] = c)

\* std::string's operator< on the characters of two strings
Precedes(a, b) ==
    \E k \in 1..(Min(Len(a), Len(b)) + 1) :
        /\ \A j \in 1..(k - 1) : a[j] = b[j]
        /\ IF k <= Min(Len(a), Len(b)) THEN Ordinal(a[k]) < Ordinal(b[k])
           ELSE Len(a) < Len(b)

\* what std::sort may leave of properties_ under each comparison
sortByPrice(properties, ascending) ==
    Sorts(properties,
          [i \in 1..Len(properties) |->
              IF ascending THEN properties[i].price ELSE 0 - properties[i].price])

sortBySize(properties, ascending) ==
    Sorts(properties,
          [i \in 1..Len(properties) |->
              IF ascending THEN properties[i].size ELSE 0 - properties[i].size])

sortByCity(properties) ==
    Sorts(properties,
          [i \in 1..Len(properties) |->
              Cardinality({j \in 1..Len(properties) :
                              Precedes(Chars(properties[j].city),
                                       Chars(properties[i].city))})])

CanManage == Len(history) < MaxOperations

AddProperty(property) ==
    /\ CanManage
    /\ properties_' = Append(properties_, property)
    /\ id_to_index_' = updateIndexMap(properties_')
    /\ history' = Append(history, Call("addProperty", property.id, "void"))
    /\ UNCHANGED <<model, files, locals, collection>>

RemoveProperty(id) ==
    /\ CanManage
    /\ properties_' = removeProperty(id, properties_)
    /\ id_to_index_' = IF Len(properties_') # Len(properties_)
                       THEN updateIndexMap(properties_')
                       ELSE id_to_index_
    /\ history' = Append(history, Call("removeProperty", id, "void"))
    /\ UNCHANGED <<model, files, locals, collection>>

FindProperty(id) ==
    /\ CanManage
    /\ history' = Append(history, Call("findProperty", id,
                                       findProperty(id, properties_, id_to_index_)))
    /\ UNCHANGED <<model, files, locals, collection, manager>>

ClearProperties ==
    /\ CanManage
    /\ properties_' = <<>>
    /\ history' = Append(history, Call("clearProperties", <<>>, "void"))
    /\ UNCHANGED <<model, files, locals, collection, id_to_index_>>

SortByPrice(ascending) ==
    /\ CanManage
    /\ properties_' \in sortByPrice(properties_, ascending)
    /\ id_to_index_' = updateIndexMap(properties_')
    /\ history' = Append(history, Call("sortByPrice", ascending, "void"))
    /\ UNCHANGED <<model, files, locals, collection>>

SortBySize(ascending) ==
    /\ CanManage
    /\ properties_' \in sortBySize(properties_, ascending)
    /\ id_to_index_' = updateIndexMap(properties_')
    /\ history' = Append(history, Call("sortBySize", ascending, "void"))
    /\ UNCHANGED <<model, files, locals, collection>>

SortByCity ==
    /\ CanManage
    /\ properties_' \in sortByCity(properties_)
    /\ id_to_index_' = updateIndexMap(properties_')
    /\ history' = Append(history, Call("sortByCity", <<>>, "void"))
    /\ UNCHANGED <<model, files, locals, collection>>

ManagerNext ==
    \/ \E property \in Stock : AddProperty(property)
    \/ \E id \in StockIds : RemoveProperty(id)
    \/ \E id \in StockIds : FindProperty(id)
    \/ ClearProperties
    \/ \E ascending \in BOOLEAN : SortByPrice(ascending)
    \/ SortBySize(TRUE)
    \/ SortByCity

ManagerSpec == Init /\ [][ManagerNext]_vars

(***************************************************************************)
(* Properties.                                                             *)
(***************************************************************************)
ListingOf(id) == CHOOSE l \in Listings : l.id = id

ListingsOf(ids) == [k \in 1..Len(ids) |-> ListingOf(ids[k])]

\* this step is the return of a call of op
Returns(op) ==
    /\ Len(history') = Len(history) + 1
    /\ history'[Len(history')].op = op

\* the call that returns in this step
Returned == history'[Len(history')]

\* a trainModel call has returned true
HasTrained ==
    \E k \in 1..Len(history) : history[k].op = "trainModel" /\ history[k].ret = TRUE

\* the first call of the run was a successful trainModel, and one more call followed
AfterTraining ==
    /\ pc = "idle"
    /\ Len(history) = 2
    /\ history[1].op = "trainModel"
    /\ history[1].ret = TRUE

\* C1: once trainModel has returned true, no predictPrice, predictPrices,
\* extractFeatures or calculateAccuracy call changes the city encoding or the
\* type encoding.
C1_EncodingsFrozenAfterTraining ==
    [][(/\ HasTrained
        /\ \/ Returns("predictPrice")
           \/ Returns("predictPrices")
           \/ Returns("extractFeatures")
           \/ Returns("calculateAccuracy"))
       => UNCHANGED <<city_encoding_, type_encoding_>>]_vars

\* C2: every successful trainModel enters gradient descent with an all-zero
\* weight vector and a zero bias, whatever weights the model held before.
C2_TrainingStartsFromZero ==
    (pc = "gd" /\ iter = 0)
        => (bias_ = 0 /\ \A j \in 1..Len(weights_) : weights_[j] = 0)

\* the arithmetic mean of column i of a feature matrix
ColumnMean(rows, i) ==
    SumTo([k \in 1..Len(rows) |-> rows[k][i]], Len(rows)) \div Len(rows)

\* the population standard deviation of column i, 0 replaced by 1
ColumnStd(rows, i) ==
    LET sd == Sqrt(SumTo([k \in 1..Len(rows) |->
                       Mul(rows[k][i] - ColumnMean(rows, i),
                           rows[k][i] - ColumnMean(rows, i))], Len(rows)) \div Len(rows))
    IN IF sd = 0 THEN 1 * Scale ELSE sd

\* C3: when trainModel has returned true, the stored normalization parameters
\* are the column means and the population standard deviations (0 replaced by
\* 1) of the 9 feature columns of the listings of that call.
C3_NormalizationFromThisCall ==
    (pc = "idle" /\ history # <<>> /\ Last.op = "trainModel" /\ Last.ret = TRUE)
        => LET data == ListingsOf(Last.arg)
               rows == [k \in 1..Len(data) |->
                           extractFeatures(data[k], city_encoding_, type_encoding_).features]
           IN /\ Len(feature_means_) = 9
              /\ Len(feature_stds_) = 9
              /\ \A i \in 1..9 :
                    /\ feature_means_[i] = ColumnMean(rows, i)
                    /\ feature_stds_[i] = ColumnStd(rows, i)

\* the weights a model file holds: the numbers of its lines 3, 4, .. up to the
\* end of the file or the first empty line
WeightLines(lines) ==
    IF Len(lines) < 3 THEN <<>>
    ELSE LET stops == {k \in 3..(Len(lines) + 1) :
                          k > Len(lines) \/ lines[k].kind = "blank"}
             stop == CHOOSE k \in stops : \A other \in stops : k <= other
         IN [i \in 1..(stop - 3) |-> lines[i + 2].val]

\* this step is a loadModel call that returns true having read no weight
LoadedNoWeight ==
    /\ Returns("loadModel")
    /\ ~Returned.threw
    /\ Returned.ret = TRUE
    /\ Len(WeightLines(files[Returned.arg].lines)) = 0

\* C4 as stated: once is_trained_ is true it stays true, whatever is called.
C4_TrainedStaysTrained == [][is_trained_ => is_trained_']_vars

\* C4 as amended: once is_trained_ is true it stays true through every step
\* but a loadModel call that returns true having read no weight.
C4_TrainedUntilEmptyLoad ==
    [][(is_trained_ /\ ~LoadedNoWeight) => is_trained_']_vars

C4_Witness ==
    /\ AfterTraining
    /\ Last.op = "loadModel"
    /\ ~Last.threw
    /\ Last.ret = TRUE
    /\ is_trained_

\* C5: trainModel on an empty sequence returns false and leaves weights, bias,
\* both encodings, the normalization parameters, the model type and
\* is_trained_ as they were.
C5_EmptyTrainingRejected ==
    [][(Returns("trainModel") /\ Returned.arg = <<>>)
       => (Returned.ret = FALSE /\ UNCHANGED model)]_vars

C5_Witness ==
    /\ AfterTraining
    /\ Last.op = "trainModel"
    /\ Last.arg = <<>>
    /\ Last.ret = FALSE
    /\ is_trained_
    /\ Len(weights_) = 9

\* C6: a loadModel call that fails (it returns false or std::stod throws)
\* leaves model type, bias, weights and is_trained_ as they were.
C6_FailedLoadChangesNothing ==
    [][(Returns("loadModel") /\ (Returned.threw \/ Returned.ret = FALSE))
       => UNCHANGED <<model_type_, bias_, weights_, is_trained_>>]_vars

\* C7: predictPrice on a model whose is_trained_ is false returns 0 and leaves
\* the model as it was.
C7_UntrainedPredictsZero ==
    [][(Returns("predictPrice") /\ ~is_trained_)
       => (Returned.ret = 0 /\ UNCHANGED model)]_vars

C7_Witness ==
    /\ pc = "idle"
    /\ Len(history) = 2
    /\ history[1].op = "extractFeatures"
    /\ history[1].arg = L1.id
    /\ Last.op = "predictPrice"
    /\ Last.arg = L2.id
    /\ Last.ret = 0
    /\ ~is_trained_
    /\ DOMAIN city_encoding_ = {L1.city}

\* C8: whenever is_trained_ is true the weight vector has 9 entries, one per
\* feature.
C8_TrainedHasNineWeights == is_trained_ => Len(weights_) = 9

\* C9: when saveModel has returned true, loading the file it wrote yields the
\* bias and the weight vector of the model that was saved.
C9_SaveLoadRoundTrip ==
    (pc = "idle" /\ history # <<>> /\ Last.op = "saveModel" /\ Last.ret = TRUE)
        => LET r == loadModel(files[Last.arg], model_type_, bias_, weights_, is_trained_)
           IN r.bias = bias_ /\ r.weights = weights_

\* C10: a loadModel call that returns true leaves line 1 as model type, the
\* number of line 2 as bias, the numbers of the following lines up to the end
\* or the first empty line as the weights, is_trained_ true iff there is at
\* least one weight, and encodings and normalization parameters untouched.
C10_LoadReadsTheFile ==
    [][(Returns("loadModel") /\ ~Returned.threw /\ Returned.ret = TRUE)
       => LET lines == files[Returned.arg].lines
          IN /\ Len(lines) >= 1 => model_type_' = LineString(lines[1])
             /\ Len(lines) >= 2 => bias_' = lines[2].val
             /\ weights_' = WeightLines(lines)
             /\ is_trained_' = (Len(WeightLines(lines)) > 0)
             /\ UNCHANGED <<city_encoding_, type_encoding_, feature_means_,
                            feature_stds_>>]_vars

C10_Witness ==
    /\ AfterTraining
    /\ Last.op = "loadModel"
    /\ Last.arg = "short.txt"
    /\ Last.ret = TRUE
    /\ weights_ = <<0 - 100>>
    /\ is_trained_
    /\ Len(feature_means_) = 9
    /\ DOMAIN city_encoding_ # {}

(***************************************************************************)
(* Properties of the SearchEngine, under SearchSpec.                       *)
(***************************************************************************)
\* some call of op has returned
Called(op) == \E k \in 1..Len(history) : history[k].op = op

\* the listing occurs in the sequence
In(listing, listings) == \E i \in 1..Len(listings) : listings[i] = listing

\* where it occurs (the listings of a collection differ from each other)
PositionIn(listing, listings) ==
    CHOOSE i \in 1..Len(listings) : listings[i] = listing

NumericKeys ==
    {"min_price", "max_price", "bedrooms", "bathrooms", "min_size", "max_size"}

\* every value under a numeric key is a numeral, a whole one under bedrooms
\* and bathrooms
WellFormed(filters) ==
    \A key \in DOMAIN filters \cap NumericKeys :
        /\ filters[key].kind = "num"
        /\ key \in {"bedrooms", "bathrooms"} => filters[key].val % Scale = 0

\* the match rules for the recognized keys
Satisfies(listing, filters) ==
    LET Has(key) == key \in DOMAIN filters
    IN /\ Has("city") => listing.city = LineString(filters["city"])
       /\ Has("type") => listing.type = LineString(filters["type"])
       /\ Has("bedrooms") => listing.bedrooms * Scale = filters["bedrooms"].val
       /\ Has("bathrooms") => listing.bathrooms * Scale = filters["bathrooms"].val
       /\ Has("min_price") => listing.price >= filters["min_price"].val
       /\ Has("max_price") => listing.price <= filters["max_price"].val
       /\ Has("min_size") => listing.size >= filters["min_size"].val
       /\ Has("max_size") => listing.size <= filters["max_size"].val

\* C11: with well-formed criteria, search returns exactly the listings that
\* satisfy every supplied recognized criterion (exact match for city, type,
\* bedrooms and bathrooms, inclusive bounds for price and size); other keys
\* constrain nothing, and no criteria at all give the whole input back.
C11_SearchReturnsTheMatches ==
    [][Returns("search") /\ WellFormed(Returned.arg)
       => LET Match(listing) == Satisfies(listing, Returned.arg)
          IN /\ ~Returned.threw
             /\ Returned.ret = SelectSeq(collection, Match)
             /\ Returned.arg = NoFilters => Returned.ret = collection]_vars

\* a search under two criteria has kept some listings and dropped others
C11_Witness ==
    /\ Len(history) = 1
    /\ Last.op = "search"
    /\ ~Last.threw
    /\ WellFormed(Last.arg)
    /\ Cardinality(DOMAIN Last.arg) >= 2
    /\ Len(Last.ret) > 0
    /\ Len(Last.ret) < Len(collection)

\* a value under a numeric key that std::stod and std::stoi cannot parse
Malformed(filters) ==
    \E key \in DOMAIN filters \cap NumericKeys : filters[key].kind # "num"

\* C12: a search whose criteria hold an unparsable numeric string under a
\* recognized numeric key ends in a parse failure and returns no result,
\* whatever the collection and the other criteria.
C12_MalformedCriteriaFail ==
    [][Returns("search") /\ Malformed(Returned.arg) => Returned.threw]_vars

\* C13: no SearchEngine operation changes the collection it is given: after
\* the call it holds the same listings in the same order.
C13_CollectionUnchanged == [][collection' = collection]_vars

\* C14: recommendSimilar returns no listing with the target's id, and only
\* listings of the input collection.
C14_SimilarExcludesTarget ==
    [][Returns("recommendSimilar")
       => \A i \in 1..Len(Returned.ret) :
              /\ Returned.ret[i].id # Returned.arg.target_property.id
              /\ In(Returned.ret[i], collection)]_vars

\* the target was in the collection and recommendSimilar returned others
C14_Witness ==
    /\ Len(history) = 1
    /\ Last.op = "recommendSimilar"
    /\ In(Last.arg.target_property, collection)
    /\ Len(Last.ret) >= 2

\* C15: recommendSimilar returns its candidates by descending score, and
\* candidates of equal score in the order they have in the input.
C15_SimilarSortIsStable ==
    [][Returns("recommendSimilar")
       => LET results == Returned.ret
              Score(listing) ==
                  calculateSimilarity(Returned.arg.target_property, listing)
          IN \A i, j \in 1..Len(results) :
                 i < j =>
                     \/ Score(results[i]) > Score(results[j])
                     \/ /\ Score(results[i]) = Score(results[j])
                        /\ PositionIn(results[i], collection)
                               < PositionIn(results[j], collection)]_vars

\* C16: recommendSimilar with max_results >= 0 returns min(max_results,
\* number of listings with another id than the target) listings, none of
\* them scored below a candidate it left out; max_results = 0 gives none.
C16_SimilarTruncates ==
    [][Returns("recommendSimilar") /\ Returned.arg.max_results >= 0
       => LET results == Returned.ret
              target == Returned.arg.target_property
              others == {i \in 1..Len(collection) : collection[i].id # target.id}
          IN /\ Len(results) = Min(Returned.arg.max_results, Cardinality(others))
             /\ \A i \in others, j \in 1..Len(results) :
                    ~In(collection[i], results) =>
                        calculateSimilarity(target, collection[i])
                            <= calculateSimilarity(target, results[j])
             /\ Returned.arg.max_results = 0 => results = <<>>]_vars

\* recommendSimilar has cut its candidates down to max_results, leaving out
\* one of a lower score
C16_Witness ==
    /\ Len(history) = 1
    /\ Last.op = "recommendSimilar"
    /\ Last.arg.max_results > 0
    /\ Len(Last.ret) = Last.arg.max_results
    /\ \E i \in 1..Len(collection) :
           /\ collection[i].id # Last.arg.target_property.id
           /\ ~In(collection[i], Last.ret)
           /\ calculateSimilarity(Last.arg.target_property, collection[i])
                  < calculateSimilarity(Last.arg.target_property, Last.ret[1])

\* C17 as the specification states it: a listing scores 1.5 against itself,
\* and no listing of the collection scores more than 1.5 against the target.
C17_SelfSimilarityIsOneAndAHalf ==
    \A k \in 1..Len(history) :
        history[k].op = "recommendSimilar" =>
            LET target == history[k].arg.target_property
            IN /\ calculateSimilarity(target, target) = (3 * Scale) \div 2
               /\ \A i \in 1..Len(collection) :
                      calculateSimilarity(target, collection[i]) <= (3 * Scale) \div 2

\* C17, amended: a listing scores 1.0 against itself (the target, and each
\* listing of the collection), and no listing of the collection scores more
\* than 1.0 against the target.
C17_SelfSimilarityIsOne ==
    \A k \in 1..Len(history) :
        history[k].op = "recommendSimilar" =>
            LET target == history[k].arg.target_property
            IN /\ calculateSimilarity(target, target) = Scale
               /\ \A i \in 1..Len(collection) :
                      /\ calculateSimilarity(collection[i], collection[i]) = Scale
                      /\ calculateSimilarity(target, collection[i]) <= Scale

\* recommendSimilar has returned a listing that scores 1.0 against the
\* target and one that scores less
C17_Witness ==
    /\ Len(history) = 1
    /\ Last.op = "recommendSimilar"
    /\ \E i, j \in 1..Len(Last.ret) :
           /\ calculateSimilarity(Last.arg.target_property, Last.ret[i]) = Scale
           /\ calculateSimilarity(Last.arg.target_property, Last.ret[j]) < Scale

\* C18: recommendByBudget returns exactly the listings priced in the
\* inclusive range [budget * (1 - tolerance), budget * (1 + tolerance)], each
\* once, and |price - budget| never decreases along the result; budget 1000
\* with tolerance 0.1 keeps the prices in [900, 1100].
C18_BudgetRangeAndOrder ==
    [][Returns("recommendByBudget")
       => LET results == Returned.ret
              budget == Returned.arg.budget
              tolerance == Returned.arg.tolerance
              InRange(listing) ==
                  /\ listing.price >= FMul(budget, Scale - tolerance)
                  /\ listing.price <= FMul(budget, Scale + tolerance)
          IN /\ \A i \in 1..Len(collection) :
                    In(collection[i], results) <=> InRange(collection[i])
             /\ \A i \in 1..Len(results) : In(results[i], collection)
             /\ \A i, j \in 1..Len(results) : results[i] = results[j] => i = j
             /\ \A i \in 1..(Len(results) - 1) :
                    Abs(results[i].price - budget) <= Abs(results[i + 1].price - budget)
             /\ budget = 1000 * Scale /\ tolerance = Scale \div 10
                    => \A i \in 1..Len(collection) :
                           In(collection[i], results)
                               <=> /\ collection[i].price >= 900 * Scale
                                   /\ collection[i].price <= 1100 * Scale]_vars

\* recommendByBudget has kept a listing at each end of the range, ordered
\* three by their distance from the budget, and dropped one just above
C18_Witness ==
    /\ Len(history) = 1
    /\ Last.op = "recommendByBudget"
    /\ Len(Last.ret) >= 3
    /\ Len(Last.ret) < Len(collection)
    /\ \E i, j \in 1..Len(Last.ret) :
           /\ Last.ret[i].price = FMul(Last.arg.budget, Scale - Last.arg.tolerance)
           /\ Last.ret[j].price = FMul(Last.arg.budget, Scale + Last.arg.tolerance)
    /\ Abs(Last.ret[1].price - Last.arg.budget)
           < Abs(Last.ret[Len(Last.ret)].price - Last.arg.budget)

C20_DistanceZeroAndSymmetric ==
    \A k \in 1..Len(history) :
        history[k].op = "searchNearby" =>
            LET lat == history[k].arg.latitude
                lon == history[k].arg.longitude
            IN /\ calculateDistance(lat, lon, lat, lon) = Real(0)
               /\ \A i \in 1..Len(collection) :
                      LET there == calculateDistance(lat, lon, collection[i].latitude,
                                                     collection[i].longitude)
                          back == calculateDistance(collection[i].latitude,
                                                    collection[i].longitude, lat, lon)
                      IN ~there.nan /\ ~back.nan /\ there.val = back.val

\* the prices of the listings
PricesOf(listings) == [i \in 1..Len(listings) |-> listings[i].price]

\* the k-th smallest of the values, duplicates counted
OfRank(values, k) ==
    CHOOSE v \in {values[i] : i \in 1..Len(values)} :
        /\ Cardinality({i \in 1..Len(values) : values[i] < v}) < k
        /\ k <= Cardinality({i \in 1..Len(values) : values[i] <= v})

\* C21: for a non-empty collection calculatePriceStatistics returns the
\* number of listings as count, the smallest and the largest price as min
\* and max, sum/count as mean and, as median, the middle one of the prices
\* in ascending order (the average of the two middle ones where the count is
\* even), the same for every order of the collection; for an empty
\* collection it returns a map with no keys.
C21_PriceStatistics ==
    \A k \in 1..Len(history) :
      history[k].op = "calculatePriceStatistics" =>
        LET stats == history[k].ret
            size == Len(collection)
            prices == PricesOf(collection)
        IN IF size = 0 THEN DOMAIN stats = {}
           ELSE /\ stats["count"] = size * Scale
                /\ \E i \in 1..size : stats["min"] = prices[i]
                /\ \A i \in 1..size : stats["min"] <= prices[i]
                /\ \E i \in 1..size : stats["max"] = prices[i]
                /\ \A i \in 1..size : stats["max"] >= prices[i]
                /\ stats["mean"] = FDiv(SumTo(prices, size), size * Scale)
                /\ stats["median"] =
                       IF size % 2 = 1 THEN OfRank(prices, (size + 1) \div 2)
                       ELSE FDiv(OfRank(prices, size \div 2)
                                     + OfRank(prices, size \div 2 + 1), 2 * Scale)
                /\ \A arrangement \in Arrangements(collection) :
                       calculatePriceStatistics(arrangement) = stats

\* the statistics of an even number of listings that are not in the order of
\* their prices: the median is between the two middle prices and is not the
\* mean
C21_Witness ==
    /\ Len(history) = 1
    /\ Last.op = "calculatePriceStatistics"
    /\ Len(collection) % 2 = 0
    /\ \E i \in 1..(Len(collection) - 1) :
           collection[i].price > collection[i + 1].price
    /\ \A i \in 1..Len(collection) : Last.ret["median"] # collection[i].price
    /\ Last.ret["median"] # Last.ret["mean"]
    /\ Last.ret["min"] < Last.ret["median"]
    /\ Last.ret["median"] < Last.ret["max"]

\* the tokens of a keyword string: its longest stretches without white space,
\* as pairs of first and last position
TokensOf(keywords) ==
    {span \in (1..Len(keywords)) \X (1..Len(keywords)) :
        /\ span[1] <= span[2]
        /\ \A i \in span[1]..span[2] : keywords[i] # " "
        /\ span[1] = 1 \/ keywords[span[1] - 1] = " "
        /\ span[2] = Len(keywords) \/ keywords[span[2] + 1] = " "}

\* the token occurs in the text, the case of letters ignored
Occurs(keywords, span, text) ==
    \E shift \in 0..(Len(text) - (span[2] - span[1] + 1)) :
        \A i \in span[1]..span[2] :
            tolower(text[shift + i - span[1] + 1]) = tolower(keywords[i])

\* some token of the keyword string occurs in the listing's city, type or
\* one of its amenities
Mentions(keywords, listing) ==
    \E span \in TokensOf(keywords) :
        \/ Occurs(keywords, span, Chars(listing.city))
        \/ Occurs(keywords, span, Chars(listing.type))
        \/ \E n \in 1..Len(listing.amenities) :
               Occurs(keywords, span, Chars(listing.amenities[n]))

\* C22: searchByKeywords returns a listing of the collection if and only if
\* some token of the keyword string occurs, the case of letters ignored, in
\* its city, its type or one of its amenities; for a keyword string without
\* tokens it returns nothing.
C22_KeywordsMatchAnyToken ==
    [][Returns("searchByKeywords")
       => /\ \A i \in 1..Len(collection) :
                 In(collection[i], Returned.ret)
                     <=> Mentions(Returned.arg, collection[i])
          /\ \A i \in 1..Len(Returned.ret) : In(Returned.ret[i], collection)
          /\ TokensOf(Returned.arg) = {} => Returned.ret = <<>>]_vars

\* a keyword string of two tokens has found some listings and not others,
\* one of them by a token in other case than the listing's text, and none
\* by every token
C22_Witness ==
    /\ Len(history) = 1
    /\ Last.op = "searchByKeywords"
    /\ Cardinality(TokensOf(Last.arg)) = 2
    /\ 0 < Len(Last.ret)
    /\ Len(Last.ret) < Len(collection)
    /\ \E i \in 1..Len(Last.ret) :
           \A span \in TokensOf(Last.arg) :
               \A n \in 1..Len(Last.ret[i].amenities) :
                   ~Finds(Chars(Last.ret[i].amenities[n]),
                          SubSeq(Last.arg, span[1], span[2]))
    /\ \A i \in 1..Len(Last.ret) :
           \E span \in TokensOf(Last.arg) :
               /\ ~Occurs(Last.arg, span, Chars(Last.ret[i].city))
               /\ ~Occurs(Last.arg, span, Chars(Last.ret[i].type))
               /\ \A n \in 1..Len(Last.ret[i].amenities) :
                      ~Occurs(Last.arg, span, Chars(Last.ret[i].amenities[n]))

\* the elements of the sequence at the chosen positions, in their order
Picked(seq, picks) ==
    LET Rank(i) == Cardinality({j \in picks : j <= i})
    IN [k \in 1..Cardinality(picks) |-> seq[CHOOSE i \in picks : Rank(i) = k]]

\* sub is what remains of seq when some of its elements are dropped
Subsequence(sub, seq) == \E picks \in SUBSET (1..Len(seq)) : sub = Picked(seq, picks)

\* C29: what search, searchByKeywords and searchNearby return is a
\* subsequence of the collection: listings of the collection, none more
\* often than it occurs there, in the order they have there.
C29_ResultsAreSubsequences ==
    [][(/\ \/ Returns("search")
           \/ Returns("searchByKeywords")
           \/ Returns("searchNearby")
        /\ ~Returned.threw)
       => Subsequence(Returned.ret, collection)]_vars

\* one of the three has returned two listings or more, not the first of the
\* collection and not all that follow the ones it returned
C29_Witness ==
    /\ Len(history) = 1
    /\ Last.op \in {"search", "searchByKeywords", "searchNearby"}
    /\ ~Last.threw
    /\ Len(Last.ret) >= 2
    /\ Len(Last.ret) < Len(collection)
    /\ Last.ret[1] # collection[1]
    /\ \E i \in 1..(Len(collection) - 1) :
           /\ In(collection[i], Last.ret)
           /\ ~In(collection[i + 1], Last.ret)

\* the listings agree in all that calculateSimilarity reads
Coincide(p1, p2) ==
    /\ p1.city = p2.city
    /\ p1.type = p2.type
    /\ p1.bedrooms = p2.bedrooms
    /\ p1.price = p2.price
    /\ p1.size = p2.size

Affine(features, weights, bias) ==
    bias + SumTo([i \in 1..Len(features) |-> Mul(weights[i], features[i])],
                 Len(features))

\* C23: each iteration of gradient descent takes, for every sample, the
\* residual (bias + sum(weight_i * feature_i)) - price from the weights and
\* the bias it starts with, also where that affine value is negative, and
\* subtracts learning_rate * gradient / N from every weight and from the bias
\* once.
C23_ResidualIsAffineMinusPrice ==
    [][pc = "gd" /\ iter' = iter + 1
       => LET N == Len(X)
              residual == [i \in 1..N |-> Affine(X[i], weights_, bias_) - y[i]]
              Gradient(j) == SumTo([i \in 1..N |-> Mul(residual[i], X[i][j])], N)
          IN /\ \A j \in 1..Len(weights_) :
                    weights_'[j] = weights_[j] - (Mul(learning_rate, Gradient(j)) \div N)
             /\ bias_' = bias_ - (Mul(learning_rate, SumTo(residual, N)) \div N)]_vars

\* C24: a trainModel call on one listing or more returns, and returns true
\* with is_trained_ set, out of the gradient-descent loop after exactly
\* max_iterations iterations of it.
C24_TrainRunsAllIterations ==
    [][Returns("trainModel") /\ Returned.arg # <<>>
       => /\ Returned.ret = TRUE
          /\ is_trained_'
          /\ pc = "gd"
          /\ iter = max_iterations]_vars

\* the codes by first sight: a value's code is the number of distinct values
\* in front of its first occurrence
FirstSeen(values) ==
    [v \in {values[k] : k \in 1..Len(values)} |->
        LET first == CHOOSE k \in 1..Len(values) :
                         /\ values[k] = v
                         /\ \A j \in 1..(k - 1) : values[j] # v
        IN Cardinality({values[j] : j \in 1..(first - 1)})]

\* the encoding is one-to-one onto 0..(number of entries - 1)
Contiguous(encoding) ==
    /\ {encoding[v] : v \in DOMAIN encoding} = 0..(Cardinality(DOMAIN encoding) - 1)
    /\ \A v, w \in DOMAIN encoding : encoding[v] = encoding[w] => v = w

\* C25: when trainModel has returned true, each encoding holds the cities
\* (the types) of the training data and nothing else, the k-th distinct one
\* in input order under code k - 1; and in every state each encoding is
\* one-to-one onto 0..(number of entries - 1).
C25_EncodingsRebuiltAndContiguous ==
    /\ Contiguous(city_encoding_)
    /\ Contiguous(type_encoding_)
    /\ (/\ pc = "idle"
        /\ Len(history) > 0
        /\ Last.op = "trainModel"
        /\ Last.ret = TRUE) =>
               LET data == ListingsOf(Last.arg)
               IN /\ city_encoding_
                         = FirstSeen([k \in 1..Len(data) |-> data[k].city])
                  /\ type_encoding_
                         = FirstSeen([k \in 1..Len(data) |-> data[k].type])

\* the predictor had Delhi under code 0 and Villa under code 0 when it was
\* trained on L1, L2: they are second now, or gone after a training on L1
C25_Witness ==
    /\ pc = "idle"
    /\ Len(history) = 2
    /\ \/ history[1].op = "extractFeatures" /\ history[1].arg = L2.id
       \/ history[1].op = "trainModel" /\ history[1].arg = <<L1.id, L2.id>>
    /\ Last.op = "trainModel"
    /\ Last.ret = TRUE
    /\ \/ /\ Last.arg = <<L1.id, L2.id>>
          /\ city_encoding_ = ("Pune" :> 0) @@ ("Delhi" :> 1)
          /\ type_encoding_ = ("Apartment" :> 0) @@ ("Villa" :> 1)
       \/ /\ Last.arg = <<L1.id>>
          /\ city_encoding_ = ("Pune" :> 0)
          /\ type_encoding_ = ("Apartment" :> 0)

\* C26: in every state the stored means and standard deviations are equally
\* many and no stored standard deviation is 0; and wherever the predictor
\* may call normalizeFeatureVector (it does not inside the loop of gradient
\* descent), the call, given the features of a listing or any prefix of
\* them, returns as many numbers, (x_i - mean_i) / std_i wherever there are
\* an x_i, a mean_i and a std_i, and x_i elsewhere.
C26_NormalizeIsTotal ==
    /\ Len(feature_means_) = Len(feature_stds_)
    /\ \A i \in 1..Len(feature_stds_) : feature_stds_[i] # 0
    /\ iter = 0 => \A listing \in Listings, size \in 0..9 :
           LET features ==
                   SubSeq(extractFeatures(listing, city_encoding_,
                                          type_encoding_).features, 1, size)
               normalized ==
                   normalizeFeatureVector(features, feature_means_, feature_stds_)
           IN /\ Len(normalized) = size
              /\ \A i \in 1..size :
                     normalized[i] =
                         IF i <= Len(feature_means_)
                         THEN ((features[i] - feature_means_[i]) * Scale)
                                  \div feature_stds_[i]
                         ELSE features[i]

\* a predictor trained on L1, L2, whose sizes per bedroom are equal: the 0
\* that column's deviation came to is stored as 1, next to deviations that
\* are not 1, and a price has been predicted with them
C26_Witness ==
    /\ pc = "idle"
    /\ Len(history) = 2
    /\ history[1].op = "trainModel"
    /\ history[1].arg = <<L1.id, L2.id>>
    /\ Last.op = "predictPrice"
    /\ Len(feature_stds_) = 9
    /\ feature_stds_[8] = 1 * Scale
    /\ feature_stds_[1] = ColumnStd(<<<<0>>, <<1 * Scale>>>>, 1)
    /\ feature_stds_[1] # 1 * Scale

\* the listings of the last trainModel call that returned true
LastTrainingData ==
    LET last == CHOOSE k \in 1..Len(history) :
                    /\ history[k].op = "trainModel" /\ history[k].ret = TRUE
                    /\ \A j \in (k + 1)..Len(history) :
                           ~(history[j].op = "trainModel" /\ history[j].ret = TRUE)
    IN ListingsOf(history[last].arg)

\* the price predictPrice gives for the listing on the predictor as that
\* training left it, nothing predicted since
PriceAfterTraining(listing) ==
    LET enc == initializeEncodings(LastTrainingData)
    IN predictPrice(listing, is_trained_, weights_, bias_, feature_means_,
                    feature_stds_, enc.city, enc.type).price

\* C27: on a predictor that trainModel has trained, the price predicted for
\* a listing is the one a predictor trained on the same listings gives when
\* it is asked for that listing first: the listings predicted in between,
\* and their order, do not change it.
C27_PriceIndependentOfOtherPredictions ==
    [][HasTrained /\ Returns("predictPrices")
       => \A i \in 1..Len(Returned.arg) :
              Returned.ret[i] =
                  PriceAfterTraining(CHOOSE listing \in Listings \cup Unseen :
                                         listing.id = Returned.arg[i])]_vars

(***************************************************************************)
(* Properties of the PropertyManager, under ManagerSpec.                   *)
(***************************************************************************)
\* the collection holds a listing under the id
Holds(id) == \E i \in 1..Len(properties_) : properties_[i].id = id

\* C28: whatever addProperty, removeProperty, clearProperties and the sorts
\* have done before, findProperty(id) returns a pointer to a listing of the
\* collection that has this id if the collection holds one, and the null
\* pointer if it holds none; and removeProperty(id) leaves the listings of
\* other ids, all of them and in their order, and none of this id.
C28_FindAndRemoveById ==
    [][/\ Returns("findProperty") =>
              IF Holds(Returned.arg)
              THEN /\ ~Returned.ret.null
                   /\ Returned.ret.index < Len(properties_)
                   /\ properties_[Returned.ret.index + 1].id = Returned.arg
              ELSE Returned.ret.null
       /\ Returns("removeProperty") =>
              /\ \A i \in 1..Len(properties_') : properties_'[i].id # Returned.arg
              /\ Subsequence(properties_', properties_)
              /\ Len(properties_') =
                     Cardinality({i \in 1..Len(properties_) :
                                     properties_[i].id # Returned.arg})]_vars

\* findProperty has answered with the null pointer for an id the index still
\* holds, the collection having been cleared; or with a listing that a sort
\* or a removal has moved from where it was added
C28_Witness ==
    /\ Len(history) >= 3
    /\ Last.op = "findProperty"
    /\ \/ /\ Last.ret.null
          /\ Last.arg \in DOMAIN id_to_index_
          /\ \E k \in 1..Len(history) : history[k].op = "clearProperties"
       \/ /\ ~Last.ret.null
          /\ Last.ret.index = 0
          /\ Len(properties_) = 2
          /\ history[1].op = "addProperty"
          /\ history[1].arg # Last.arg
          /\ history[3].op \in {"sortByPrice", "sortBySize", "sortByCity"}

====
